---- MODULE Spec2Model ----
(***************************************************************************)
(* Prompt-context retrieval engine of the Concerto editor extension:       *)
(* the template assembler (agentPlanner), the context extractor            *)
(* (generateEmbeddingPrompt), the similarity engine (three ranking         *)
(* operations), the                                                        *)
(* namespace mapper (extractNamespaces, generateCTOImports) and the OpenAI *)
(* gateway (generateContent, generateEmbeddings).                          *)
(*                                                                         *)
(* Strings are sequences of one-character strings, so that slicing,        *)
(* concatenation, replacement and regular-expression matching are          *)
(* computed character by character.  A JavaScript value that may be        *)
(* undefined is a record [some, val].                                      *)
(***************************************************************************)
EXTENDS Integers, Sequences, FiniteSets, TLC

VARIABLES
    \* ---- template assembler (agentPlanner) ----
    params,         \* the AgentPlannerParams of the request
    pc,             \* position of the async call: start / awaitEmbedding / done / failed
    prompt,         \* the template call that produced the returned prompt
    error,          \* the error the call was rejected with
    gatewayLog,     \* calls made to generateEmbeddingsByProvider, in order
    eventLog,       \* query / embed / embedded / render events, in order
    \* ---- context extractor (generateEmbeddingPrompt) ----
    ctxIn,          \* [documents, requestType]
    ctxOut,         \* outcome of generateEmbeddingPrompt
    \* ---- similarity engine (fetchRelevantNamespaces / Templates / Grammar) ----
    rankIn,         \* [corpus, promptEmbedding, provider, topN]
    rankOut,        \* outcome of the ranking operation
    \* ---- OpenAI gateway (generateContent / generateEmbeddings) ----
    gwConfig,       \* the ModelConfig of the call
    gwPc,           \* start / awaitContent / awaitEmbeddings / settled
    gwRequest,      \* the request posted with axios
    gwResponse,     \* what axios.post settled with
    gwOut,          \* outcome of the gateway call
    \* ---- namespace mapper (generateCTOImports) ----
    importsIn,      \* namespaceMappings, as its Object.entries
    importsOut,     \* the import block returned
    \* ---- namespace mapper (extractNamespaces) ----
    fileContent,    \* the text of one model file
    namespaces,     \* the names extracted from it
    \* ---- similarity engine (fetchRelevantTemplates, rendered items) ----
    tplIn,          \* [corpus, promptEmbedding, provider, topN], the templates with their content
    tplOut,         \* the rendered templates
    \* ---- namespace mapper (getNamespaceMappings) ----
    modelEmbeddings, \* the model corpus, as its Object.keys order
    mappingsOut,    \* the import block returned
    \* ---- several agentPlanner calls in flight ----
    storedCorpus,   \* the stored corpus every call ranks
    corpusAtStart,  \* the stored corpus as it was loaded
    calls           \* for each call: its params, position, returned embedding and prompt

plannerVars == <<params, pc, prompt, error, gatewayLog, eventLog>>
contextVars == <<ctxIn, ctxOut>>
rankVars == <<rankIn, rankOut>>
gatewayVars == <<gwConfig, gwPc, gwRequest, gwResponse, gwOut>>
importsVars == <<importsIn, importsOut>>
extractVars == <<fileContent, namespaces>>
templatesVars == <<tplIn, tplOut>>
mappingsVars == <<modelEmbeddings, mappingsOut>>
callsVars == <<storedCorpus, corpusAtStart, calls>>
assemblyVars == <<templatesVars, mappingsVars, callsVars>>
vars == <<params, pc, prompt, error, gatewayLog, eventLog, ctxIn, ctxOut, rankIn, rankOut,
          gwConfig, gwPc, gwRequest, gwResponse, gwOut, importsIn, importsOut,
          fileContent, namespaces, tplIn, tplOut, modelEmbeddings, mappingsOut,
          storedCorpus, corpusAtStart, calls>>

(***************************************************************************)
(* Bounds                                                                  *)
(***************************************************************************)
MaxLen == 3           \* longest main-document content
MaxDocs == 2          \* most context documents in one request
MaxCorpus == 3        \* most entries in the stored corpus
MaxFiles == 2         \* most files in the namespace mappings
MaxNames == 3         \* most names extracted from one file
MaxPieces == 5        \* most fragments a model file text is made of

(***************************************************************************)
(* JavaScript values                                                       *)
(***************************************************************************)
None == [some |-> FALSE, val |-> <<>>]
Some(v) == [some |-> TRUE, val |-> v]

\* String(x) as a template literal `${x}` computes it
UndefinedText == <<"u", "n", "d", "e", "f", "i", "n", "e", "d">>
TemplateText(x) == IF x.some THEN x.val ELSE UndefinedText

\* !x for a string-or-undefined x
Falsy(x) == ~x.some \/ x.val = <<>>

\* String.prototype.slice(from, to) for 0 <= from, to (0-based, end exclusive, clamped)
Min(a, b) == IF a < b THEN a ELSE b
Slice(s, from, to) ==
    LET f == Min(from, Len(s))
        t == Min(to, Len(s))
    IN IF f >= t THEN <<>> ELSE SubSeq(s, f + 1, t)

\* Array.prototype.find(doc => doc.fileName === name)?.content on contextDocuments?.
RECURSIVE FindDoc(_, _, _)
FindDoc(docs, name, i) ==
    IF i > Len(docs) THEN None
    ELSE IF docs[i].fileName = name THEN Some(docs[i]) ELSE FindDoc(docs, name, i + 1)

FindContent(contextDocuments, name) ==
    IF ~contextDocuments.some THEN None
    ELSE LET d == FindDoc(contextDocuments.val, name, 1)
         IN IF d.some THEN d.val.content ELSE None

(***************************************************************************)
(* Context extractor                                                       *)
(***************************************************************************)
Ok(v) == [status |-> "ok", value |-> v, err |-> "none"]
Throw(e) == [status |-> "throw", value |-> <<>>, err |-> e]
Pending == [status |-> "pending", value |-> <<>>, err |-> "none"]

\* requestType is a string, or undefined when the caller omits the argument
NoType == [some |-> FALSE, val |-> ""]
IsType(requestType, t) == requestType.some /\ requestType.val = t

generateEmbeddingPrompt(documents, requestType) ==
    LET contextDocuments == documents.contextDocuments
    IN IF IsType(requestType, "grammar")
       THEN Ok(TemplateText(FindContent(contextDocuments, "sample.md")))
       ELSE IF IsType(requestType, "model")
       THEN LET grammarContent == FindContent(contextDocuments, "grammar.tem.md")
                packageContent == FindContent(contextDocuments, "package.json")
            IN IF Falsy(grammarContent) \/ Falsy(packageContent)
               THEN Throw("MissingDocument")
               ELSE Ok(grammarContent.val \o <<" ">> \o packageContent.val)
       ELSE Ok(<<>>)

(***************************************************************************)
(* Inputs of the context extractor and of the template assembler           *)
(***************************************************************************)
DocNames == {"sample.md", "grammar.tem.md", "package.json", "README.md"}
DocContents == {None, Some(<<>>), Some(<<"g">>), Some(<<"p", "q">>)}
Docs == [fileName : DocNames, content : DocContents]

RECURSIVE SeqsUpTo(_, _)
SeqsUpTo(S, n) ==
    IF n = 0 THEN {<<>>}
    ELSE LET shorter == SeqsUpTo(S, n - 1)
         IN shorter \cup {Append(q, x) : q \in shorter, x \in S}

ContextDocuments == {None} \cup {Some(q) : q \in SeqsUpTo(Docs, MaxDocs)}
NoDocuments == Some(<<>>)

Contents == SeqsUpTo({"a", "b"}, MaxLen)
CursorPositions == {[some |-> FALSE, val |-> 0]} \cup {[some |-> TRUE, val |-> p] : p \in 0..MaxLen}
NoCursor == [some |-> FALSE, val |-> 0]
Languages == {"concerto", "typescript"}
Providers == {"openai", "gemini"}
Embeddings == {<<1, 0>>, <<0, 1>>}

(***************************************************************************)
(* Similarity engine                                                       *)
(*                                                                         *)
(* A similarity dot / (norm1 * norm2) is kept exactly, as the pair          *)
(* num = sign(dot) * dot^2, den = norm1^2 * norm2^2: x -> sign(x) * x^2 is  *)
(* strictly increasing, so two similarities compare as their pairs do by   *)
(* cross multiplication.  Stored and query embeddings are non-zero vectors *)
(* (den > 0), so the comparator of the sort is a total preorder.           *)
(***************************************************************************)
RECURSIVE Dot(_, _)
Dot(a, b) == IF Len(a) = 0 THEN 0 ELSE a[1] * b[1] + Dot(Tail(a), Tail(b))

Sgn(x) == IF x > 0 THEN 1 ELSE IF x < 0 THEN -1 ELSE 0

\* math.dot rejects vectors of different or zero length with a RangeError
cosineSimilarity(vec1, vec2) ==
    IF Len(vec1) # Len(vec2) \/ Len(vec1) = 0
    THEN [status |-> "throw", num |-> 0, den |-> 1]
    ELSE LET dotProduct == Dot(vec1, vec2)
         IN [status |-> "ok",
             num |-> Sgn(dotProduct) * dotProduct * dotProduct,
             den |-> Dot(vec1, vec1) * Dot(vec2, vec2)]

\* sign of b[0] - a[0]
Ascending(a, b) == Sgn(a.sim.num * b.sim.den - b.sim.num * a.sim.den)

\* (a, b) => b[0] - a[0]
Descending(a, b) == Sgn(b.sim.num * a.sim.den - a.sim.num * b.sim.den)

\* an insertion that puts an element before the elements it compares equal to
RECURSIVE InsertSortedBeforeEqual(_, _)
InsertSortedBeforeEqual(sorted, x) ==
    IF sorted = <<>> THEN <<x>>
    ELSE IF Descending(sorted[1], x) >= 0
         THEN <<x>> \o sorted
         ELSE <<sorted[1]>> \o InsertSortedBeforeEqual(Tail(sorted), x)

\* Array.prototype.sort with a comparator: stable
RECURSIVE InsertSorted(_, _)
InsertSorted(sorted, x) ==
    IF sorted = <<>> THEN <<x>>
    ELSE IF Descending(sorted[1], x) > 0
         THEN <<x>> \o sorted
         ELSE <<sorted[1]>> \o InsertSorted(Tail(sorted), x)

RECURSIVE Sort(_)
Sort(arr) ==
    IF arr = <<>> THEN <<>>
    ELSE InsertSorted(Sort(SubSeq(arr, 1, Len(arr) - 1)), arr[Len(arr)])

\* the provider test of the loop body: the embedding array the entry stores
\* for the provider, when the provider is one of the two and the field is truthy
SelectEmbeddings(entry, provider) ==
    IF provider = "gemini" /\ entry.gemini.some THEN entry.gemini
    ELSE IF provider = "openai" /\ entry.openai.some THEN entry.openai
    ELSE None

\* the for loop: entries that pass `embeddings && Array.isArray(embeddings)`
\* are handed to cosineSimilarity, in corpus order, up to the first throw
RECURSIVE ScoreEntries(_, _, _, _)
ScoreEntries(corpus, promptEmbedding, provider, i) ==
    IF i > Len(corpus) THEN [status |-> "ok", scored |-> <<>>, similarities |-> <<>>]
    ELSE LET embeddings == SelectEmbeddings(corpus[i], provider)
             rest == ScoreEntries(corpus, promptEmbedding, provider, i + 1)
         IN IF ~embeddings.some THEN rest
            ELSE LET similarity == cosineSimilarity(promptEmbedding, embeddings.val)
                 IN IF similarity.status = "throw"
                    THEN [status |-> "throw", scored |-> <<i>>, similarities |-> <<>>]
                    ELSE [status |-> rest.status,
                          scored |-> <<i>> \o rest.scored,
                          similarities |->
                              IF rest.status = "throw" THEN <<>>
                              ELSE <<[sim |-> similarity, key |-> i]>> \o rest.similarities]

DefaultTopNamespaces == 4
DefaultTopTemplates == 4
DefaultTopGrammar == 3

\* the common body of the three ranking operations; render is the shape of
\* the string produced for each selected entry
Rank(in, defaultTopN, render) ==
    LET topN == IF in.topN.some THEN in.topN.val ELSE defaultTopN
        loop == ScoreEntries(in.corpus, in.promptEmbedding, in.provider, 1)
        top == Slice(Sort(loop.similarities), 0, topN)
    IN IF loop.status = "throw"
       THEN [status |-> "throw", op |-> render, scored |-> loop.scored, items |-> <<>>]
       ELSE [status |-> "ok", op |-> render, scored |-> loop.scored,
             items |-> [j \in 1..Len(top) |-> [render |-> render, key |-> top[j].key]]]

fetchRelevantNamespaces(in) == Rank(in, DefaultTopNamespaces, "namespace")
fetchRelevantTemplates(in) == Rank(in, DefaultTopTemplates, "template")
fetchRelevantGrammar(in) == Rank(in, DefaultTopGrammar, "grammar")

\* corpus entries: the embedding stored for each provider, or none
Entry(o, g) == [openai |-> o, gemini |-> g]
Entries ==
    {Entry(Some(<<1, 0>>), None), Entry(Some(<<1, 1>>), None),
     Entry(Some(<<-1, 0>>), Some(<<1, 0>>)), Entry(Some(<<2, 0>>), Some(<<0, 1>>)),
     Entry(None, Some(<<1, 1>>)), Entry(None, None),
     Entry(Some(<<>>), Some(<<1, 0>>)), Entry(Some(<<0, 1>>), Some(<<>>))}
Corpora == SeqsUpTo(Entries, MaxCorpus)
QueryEmbeddings == {<<1, 0>>, <<1, 2>>}
RankProviders == {"openai", "gemini", "mistral"}
TopNs == {[some |-> FALSE, val |-> 0]} \cup {[some |-> TRUE, val |-> n] : n \in 0..MaxCorpus}

NotRanked == [status |-> "pending", op |-> "none", scored |-> <<>>, items |-> <<>>]

IdleRank ==
    /\ rankIn = [corpus |-> <<>>, promptEmbedding |-> <<1, 0>>, provider |-> "openai",
                 topN |-> [some |-> FALSE, val |-> 0]]
    /\ rankOut = NotRanked

RankNamespaces ==
    /\ rankOut.status = "pending"
    /\ rankOut' = fetchRelevantNamespaces(rankIn)
    /\ UNCHANGED <<rankIn, plannerVars, contextVars, gatewayVars, importsVars, extractVars, assemblyVars>>

RankTemplates ==
    /\ rankOut.status = "pending"
    /\ rankOut' = fetchRelevantTemplates(rankIn)
    /\ UNCHANGED <<rankIn, plannerVars, contextVars, gatewayVars, importsVars, extractVars, assemblyVars>>

RankGrammar ==
    /\ rankOut.status = "pending"
    /\ rankOut' = fetchRelevantGrammar(rankIn)
    /\ UNCHANGED <<rankIn, plannerVars, contextVars, gatewayVars, importsVars, extractVars, assemblyVars>>

(***************************************************************************)
(* OpenAI gateway                                                          *)
(*                                                                         *)
(* axios.post resolves with the response when its status is 2xx and        *)
(* rejects with an AxiosError otherwise: one that has a response (the      *)
(* server answered with another status), one that has only a request (no   *)
(* answer arrived), or one that has neither (the request was never built). *)
(***************************************************************************)
DefaultContentUrl == "LLM_ENDPOINTS.OPENAI"
DefaultEmbeddingsUrl == "LLM_EMDEDDINGS_ENDPOINTS.OPENAI"
DefaultEmbeddingModel == "text-embedding-ada-002"
OpenAiUrl == "https://api.openai.com/v1/embeddings"
LocalUrl == "http://localhost:8080/v1"

\* apiUrl.includes('openai')
IncludesOpenai(url) == url \in {DefaultContentUrl, DefaultEmbeddingsUrl, OpenAiUrl}

\* one element of response.data.choices
Choice(hasMessage, hasContent, content) ==
    [hasMessage |-> hasMessage, hasContent |-> hasContent, content |-> content]
\* one element of response.data.data
Result(hasEmbedding, embedding) == [hasEmbedding |-> hasEmbedding, embedding |-> embedding]

\* response.data: the body may be missing, may lack the list (choices or
\* data), and the list may be empty
Body(hasBody, hasList, choices, results) ==
    [hasBody |-> hasBody, hasList |-> hasList, choices |-> choices, results |-> results]
NoBody == Body(FALSE, FALSE, <<>>, <<>>)

ContentBodies ==
    {NoBody, Body(TRUE, FALSE, <<>>, <<>>), Body(TRUE, TRUE, <<>>, <<>>)}
    \cup {Body(TRUE, TRUE, <<c>>, <<>>) :
            c \in {Choice(FALSE, FALSE, <<>>), Choice(TRUE, FALSE, <<>>),
                   Choice(TRUE, TRUE, <<>>), Choice(TRUE, TRUE, <<"h", "i">>)}}
    \cup {Body(TRUE, TRUE, <<Choice(TRUE, TRUE, <<"h", "i">>), Choice(TRUE, TRUE, <<"y", "o">>)>>, <<>>)}

EmbeddingBodies ==
    {NoBody, Body(TRUE, FALSE, <<>>, <<>>), Body(TRUE, TRUE, <<>>, <<>>)}
    \cup {Body(TRUE, TRUE, <<>>, <<r>>) :
            r \in {Result(FALSE, <<>>), Result(TRUE, <<>>), Result(TRUE, <<1, 0>>)}}
    \cup {Body(TRUE, TRUE, <<>>, <<Result(TRUE, <<1, 0>>), Result(TRUE, <<0, 1>>)>>)}

ResolvedStatuses == {200, 201, 204}
RejectedStatuses == {400, 401, 429, 500}

Settlement(kind, status, body) == [kind |-> kind, status |-> status, body |-> body]
NoSettlement == Settlement("none", 0, NoBody)

GwOk(v) == [status |-> "ok", value |-> v, cause |-> "none", carried |-> 0]
GwThrow(cause, carried) == [status |-> "throw", value |-> None, cause |-> cause, carried |-> carried]
GwPending == [status |-> "pending", value |-> None, cause |-> "none", carried |-> 0]

\* the catch block, the same in both operations: the cause is told apart by
\* error.response, error.request, and axios.isAxiosError
Catch(settlement) ==
    IF settlement.kind = "rejectedWithResponse" THEN GwThrow("status", settlement.status)
    ELSE IF settlement.kind = "rejectedWithoutResponse" THEN GwThrow("noResponse", 0)
    ELSE IF settlement.kind = "rejectedBeforeRequest" THEN GwThrow("setup", 0)
    ELSE GwThrow("unexpected", 0)

\* generatedContent?.choices[0]?.message?.content
FirstChoiceContent(choices) ==
    IF choices[1].hasMessage /\ choices[1].hasContent THEN Some(choices[1].content) ELSE None

\* generateContent accepting every resolved status, not only 200
ContentOutcomeAnyStatus(settlement) ==
    IF settlement.kind # "resolved" THEN Catch(settlement)
    ELSE IF ~settlement.body.hasBody THEN Catch(Settlement("typeError", 0, NoBody))
    ELSE IF settlement.body.hasList /\ Len(settlement.body.choices) > 0
         THEN GwOk(FirstChoiceContent(settlement.body.choices))
         ELSE Catch(Settlement("invalidResponse", 0, NoBody))

\* generateContent after the awaited post: the try body, then the catch
ContentOutcome(settlement) ==
    IF settlement.kind # "resolved" THEN Catch(settlement)
    ELSE IF ~settlement.body.hasBody THEN Catch(Settlement("typeError", 0, NoBody))
    ELSE IF /\ settlement.status = 200
            /\ settlement.body.hasList
            /\ Len(settlement.body.choices) > 0
         THEN GwOk(FirstChoiceContent(settlement.body.choices))
         ELSE Catch(Settlement("invalidResponse", 0, NoBody))

\* generateEmbeddings after the awaited post: the try body, then the catch
EmbeddingsOutcome(settlement) ==
    IF settlement.kind # "resolved" THEN Catch(settlement)
    ELSE IF ~settlement.body.hasBody THEN Catch(Settlement("typeError", 0, NoBody))
    ELSE IF settlement.status = 200 /\ settlement.body.hasList
         THEN IF Len(settlement.body.results) = 0
              THEN Catch(Settlement("typeError", 0, NoBody))
              ELSE IF settlement.body.results[1].hasEmbedding
                   THEN GwOk(Some(settlement.body.results[1].embedding))
                   ELSE GwOk(None)
         ELSE Catch(Settlement("invalidResponse", 0, NoBody))

GatewayConfigs ==
    [apiUrl : {"", OpenAiUrl, LocalUrl}, llmModel : {"gpt-4"},
     embeddingModel : {"", "text-embedding-3-small"}]
NoRequest == [url |-> <<"", "">>, model |-> "", operation |-> "none"]

IdleGateway ==
    /\ gwConfig = [apiUrl |-> "", llmModel |-> "gpt-4", embeddingModel |-> ""]
    /\ gwPc = "idle"
    /\ gwRequest = NoRequest
    /\ gwResponse = NoSettlement
    /\ gwOut = GwPending

\* generateContent up to the awaited axios.post
SendContent ==
    /\ gwPc = "start"
    /\ gwRequest' = [url |-> <<IF gwConfig.apiUrl = "" THEN DefaultContentUrl
                                ELSE gwConfig.apiUrl, "">>,
                     model |-> gwConfig.llmModel,
                     operation |-> "content"]
    /\ gwPc' = "awaitContent"
    /\ UNCHANGED <<gwConfig, gwResponse, gwOut, plannerVars, contextVars, rankVars, importsVars, extractVars, assemblyVars>>

\* generateEmbeddings up to the awaited axios.post
SendEmbeddings ==
    /\ gwPc = "start"
    /\ LET apiUrl == IF gwConfig.apiUrl = "" THEN DefaultEmbeddingsUrl ELSE gwConfig.apiUrl
           suffix == IF IncludesOpenai(apiUrl) THEN "" ELSE "/embeddings"
       IN gwRequest' = [url |-> <<apiUrl, suffix>>,
                        model |-> IF gwConfig.embeddingModel = "" THEN DefaultEmbeddingModel
                                  ELSE gwConfig.embeddingModel,
                        operation |-> "embeddings"]
    /\ gwPc' = "awaitEmbeddings"
    /\ UNCHANGED <<gwConfig, gwResponse, gwOut, plannerVars, contextVars, rankVars, importsVars, extractVars, assemblyVars>>

Settle(settlement, outcome) ==
    /\ gwResponse' = settlement
    /\ gwOut' = outcome
    /\ gwPc' = "settled"
    /\ UNCHANGED <<gwConfig, gwRequest, plannerVars, contextVars, rankVars, importsVars, extractVars, assemblyVars>>

Rejections ==
    {Settlement("rejectedWithResponse", st, NoBody) : st \in RejectedStatuses}
    \cup {Settlement("rejectedWithoutResponse", 0, NoBody),
          Settlement("rejectedBeforeRequest", 0, NoBody)}

\* the post of generateContent resolves
ContentResolved ==
    /\ gwPc = "awaitContent"
    /\ \E st \in ResolvedStatuses, b \in ContentBodies :
          Settle(Settlement("resolved", st, b), ContentOutcome(Settlement("resolved", st, b)))

\* the post of generateContent rejects
ContentRejected ==
    /\ gwPc = "awaitContent"
    /\ \E r \in Rejections : Settle(r, ContentOutcome(r))

\* the post of generateEmbeddings resolves
EmbeddingsResolved ==
    /\ gwPc = "awaitEmbeddings"
    /\ \E st \in ResolvedStatuses, b \in EmbeddingBodies :
          Settle(Settlement("resolved", st, b), EmbeddingsOutcome(Settlement("resolved", st, b)))

\* the post of generateEmbeddings rejects
EmbeddingsRejected ==
    /\ gwPc = "awaitEmbeddings"
    /\ \E r \in Rejections : Settle(r, EmbeddingsOutcome(r))

(***************************************************************************)
(* Namespace mapper: import synthesis                                      *)
(***************************************************************************)
ImportPrefix ==
    <<"i", "m", "p", "o", "r", "t", " ", "o", "r", "g", ".", "a", "c", "c",
      "o", "r", "d", "p", "r", "o", "j", "e", "c", "t", ".">>
FromRegistry ==
    <<" ", "f", "r", "o", "m", " ", "h", "t", "t", "p", "s", ":", "/", "/",
      "m", "o", "d", "e", "l", "s", ".", "a", "c", "c", "o", "r", "d", "p",
      "r", "o", "j", "e", "c", "t", ".", "o", "r", "g", "/", "a", "c", "c",
      "o", "r", "d", "p", "r", "o", "j", "e", "c", "t", "/">>
CtoExtension == <<".", "c", "t", "o">>
Newline == <<"\n">>

\* the first index at which pat occurs in str, 0 when it does not occur
IndexOf(str, pat) ==
    LET hits == {i \in 1..(Len(str) - Len(pat) + 1) : SubSeq(str, i, i + Len(pat) - 1) = pat}
    IN IF hits = {} THEN 0 ELSE CHOOSE i \in hits : \A h \in hits : i <= h

\* String.prototype.replace with a string pattern: the first occurrence only
Replace(str, pat, rep) ==
    LET i == IndexOf(str, pat)
    IN IF i = 0 THEN str
       ELSE SubSeq(str, 1, i - 1) \o rep \o SubSeq(str, i + Len(pat), Len(str))

\* Array.prototype.join
RECURSIVE Join(_, _)
Join(values, sep) ==
    IF values = <<>> THEN <<>>
    ELSE IF Len(values) = 1 THEN values[1]
    ELSE values[1] \o sep \o Join(Tail(values), sep)

\* the text one entry of the mappings adds to the result
ImportLine(key, values) ==
    IF Len(values) = 1
    THEN ImportPrefix \o Replace(key, CtoExtension, <<>>) \o <<".">> \o values[1]
         \o FromRegistry \o key \o Newline
    ELSE IF Len(values) > 1
    THEN ImportPrefix \o Replace(key, CtoExtension, <<>>) \o <<".", "{", " ">>
         \o Join(values, <<",", " ">>) \o <<" ", "}">> \o FromRegistry \o key \o Newline
    ELSE <<>>

RECURSIVE generateCTOImports(_)
generateCTOImports(namespaceMappings) ==
    IF namespaceMappings = <<>> THEN <<>>
    ELSE ImportLine(namespaceMappings[1].key, namespaceMappings[1].values)
         \o generateCTOImports(Tail(namespaceMappings))

FileNames ==
    {<<"a", ".", "c", "t", "o">>, <<"b", ".", "c", "t", "o">>,
     <<"a", ".", "c", "t", "o", "b", ".", "c", "t", "o">>,
     <<"n", ".", "m", "d">>, <<"c", "t", "o">>}
TypeNames == {<<"V">>, <<"D", "r">>}
Mapping(key, values) == [key |-> key, values |-> values]
Mappings == {Mapping(f, v) : f \in FileNames, v \in SeqsUpTo(TypeNames, MaxNames)}

\* the keys of an object are distinct
DistinctKeys(entries) ==
    \A i, j \in DOMAIN entries : i # j => entries[i].key # entries[j].key
NamespaceMappings == {q \in SeqsUpTo(Mappings, MaxFiles) : DistinctKeys(q)}

NoImports == [done |-> FALSE, text |-> <<>>]

IdleImports ==
    /\ importsIn = <<>>
    /\ importsOut = NoImports

SynthesizeImports ==
    /\ ~importsOut.done
    /\ importsOut' = [done |-> TRUE, text |-> generateCTOImports(importsIn)]
    /\ UNCHANGED <<importsIn, plannerVars, contextVars, rankVars, gatewayVars, extractVars, assemblyVars>>

(***************************************************************************)
(* Namespace mapper: name extraction                                       *)
(*                                                                         *)
(* /\b(?:asset|participant|enum|abstract asset)\s+(\w+)/g matched the way  *)
(* RegExp.prototype.exec does: leftmost match from lastIndex, alternatives *)
(* in order, greedy \s+ and \w+, lastIndex set to the end of the match.    *)
(***************************************************************************)
WordChars ==
    {"a", "b", "c", "d", "e", "f", "g", "h", "i", "j", "k", "l", "m", "n",
     "o", "p", "q", "r", "s", "t", "u", "v", "w", "x", "y", "z", "A", "B",
     "C", "D", "E", "F", "G", "H", "I", "J", "K", "L", "M", "N", "O", "P",
     "Q", "R", "S", "T", "U", "V", "W", "X", "Y", "Z", "0", "1", "2", "3",
     "4", "5", "6", "7", "8", "9", "_"}
SpaceChars == {" ", "\n", "\t", "\r"}

IsWordAt(text, i) == i >= 1 /\ i <= Len(text) /\ text[i] \in WordChars
IsSpaceAt(text, i) == i >= 1 /\ i <= Len(text) /\ text[i] \in SpaceChars

\* the pattern without its leading \b
NoBoundary(text, i) == TRUE

\* \b between positions i - 1 and i
WordBoundary(text, i) == IsWordAt(text, i - 1) # IsWordAt(text, i)

Keywords ==
    <<<<"a", "s", "s", "e", "t">>,
      <<"p", "a", "r", "t", "i", "c", "i", "p", "a", "n", "t">>,
      <<"e", "n", "u", "m">>,
      <<"a", "b", "s", "t", "r", "a", "c", "t", " ", "a", "s", "s", "e", "t">>>>

StartsWith(text, i, word) ==
    i + Len(word) - 1 <= Len(text) /\ SubSeq(text, i, i + Len(word) - 1) = word

\* the index after the longest run of space (word) characters starting at i
RECURSIVE SkipSpaces(_, _)
SkipSpaces(text, i) == IF IsSpaceAt(text, i) THEN SkipSpaces(text, i + 1) ELSE i
RECURSIVE SkipWord(_, _)
SkipWord(text, i) == IF IsWordAt(text, i) THEN SkipWord(text, i + 1) ELSE i

NoMatch == [found |-> FALSE, name |-> <<>>, lastIndex |-> 0]

\* the rest of the pattern, \s+(\w+), tried after a keyword that ends before j
MatchName(text, j) ==
    LET k == SkipSpaces(text, j)
        e == SkipWord(text, k)
    IN IF k > j /\ e > k
       THEN [found |-> TRUE, name |-> SubSeq(text, k, e - 1), lastIndex |-> e]
       ELSE NoMatch

\* the alternatives, tried in order, at position i
RECURSIVE MatchAlternatives(_, _, _)
MatchAlternatives(text, i, a) ==
    IF a > Len(Keywords) THEN NoMatch
    ELSE LET m == IF StartsWith(text, i, Keywords[a])
                  THEN MatchName(text, i + Len(Keywords[a]))
                  ELSE NoMatch
         IN IF m.found THEN m ELSE MatchAlternatives(text, i, a + 1)

\* the whole pattern at position i
MatchAt(text, i) ==
    IF WordBoundary(text, i) THEN MatchAlternatives(text, i, 1) ELSE NoMatch

\* namespaceRegex.exec(fileContent) with lastIndex = i - 1
RECURSIVE Exec(_, _)
Exec(text, i) ==
    IF i > Len(text) THEN NoMatch
    ELSE LET m == MatchAt(text, i)
         IN IF m.found THEN m ELSE Exec(text, i + 1)

\* the while loop: push match[1] until exec returns null
RECURSIVE ExecLoop(_, _)
ExecLoop(text, i) ==
    LET match == Exec(text, i)
    IN IF ~match.found THEN <<>>
       ELSE <<match.name>> \o ExecLoop(text, match.lastIndex)

extractNamespaces(text) == ExecLoop(text, 1)

Pieces ==
    {<<"a", "s", "s", "e", "t", " ">>,
     <<"e", "n", "u", "m", " ">>,
     <<"p", "a", "r", "t", "i", "c", "i", "p", "a", "n", "t", " ">>,
     <<"a", "b", "s", "t", "r", "a", "c", "t", " ">>,
     <<"V">>, <<" ">>, <<"{">>}

RECURSIVE Flatten(_)
Flatten(pieces) == IF pieces = <<>> THEN <<>> ELSE pieces[1] \o Flatten(Tail(pieces))

FileContents == {Flatten(q) : q \in SeqsUpTo(Pieces, MaxPieces)}

NotExtracted == [done |-> FALSE, names |-> <<>>]

IdleExtract ==
    /\ fileContent = <<>>
    /\ namespaces = NotExtracted

ExtractNames ==
    /\ ~namespaces.done
    /\ namespaces' = [done |-> TRUE, names |-> extractNamespaces(fileContent)]
    /\ UNCHANGED <<fileContent, plannerVars, contextVars, rankVars, gatewayVars, importsVars, assemblyVars>>

(***************************************************************************)
(* Context extractor as a checked function                                 *)
(***************************************************************************)
IdleContext ==
    /\ ctxIn = [documents |-> [contextDocuments |-> None], requestType |-> NoType]
    /\ ctxOut = Pending

BuildQuery ==
    /\ ctxOut.status = "pending"
    /\ ctxOut' = generateEmbeddingPrompt(ctxIn.documents, ctxIn.requestType)
    /\ UNCHANGED <<ctxIn, plannerVars, rankVars, gatewayVars, importsVars, extractVars, assemblyVars>>

(***************************************************************************)
(* Template assembler                                                      *)
(***************************************************************************)
MkParams(type, content, cursor, language, ctxDocs, provider) ==
    [documents |-> [main |-> [content |-> content, cursorPosition |-> cursor],
                    contextDocuments |-> ctxDocs],
     promptConfig |-> [requestType |-> type, language |-> language],
     config |-> [provider |-> provider]]

\* the inputs each request type reads are varied; the others are fixed
PlannerParams ==
    {MkParams("inline", c, p, l, NoDocuments, "openai") :
        c \in Contents, p \in CursorPositions, l \in Languages}
    \cup {MkParams(t, c, NoCursor, l, NoDocuments, "openai") :
        t \in {"fix", "general", "frobnicate"}, c \in Contents, l \in Languages}
    \cup {MkParams(t, <<"a">>, NoCursor, "concerto", d, pr) :
        t \in {"model", "grammar"}, d \in ContextDocuments, pr \in Providers}

Rendered(t, before, after, embedding) ==
    [template |-> t, before |-> before, after |-> after, embedding |-> embedding]
NoPrompt == Rendered("none", <<>>, <<>>, <<>>)

IdlePlanner ==
    /\ params = MkParams("general", <<>>, NoCursor, "concerto", NoDocuments, "openai")
    /\ pc = "idle"
    /\ prompt = NoPrompt
    /\ error = "none"
    /\ gatewayLog = <<>>
    /\ eventLog = <<>>

requestTypeOf == params.promptConfig.requestType

\* !cursorPosition: undefined and 0 are both falsy
inlineRequestPrompt(documents, promptConfig) ==
    LET content == documents.main.content
        given == documents.main.cursorPosition
        cursorPosition == IF ~given.some \/ given.val = 0 THEN Len(content) ELSE given.val
        beforeCursor == Slice(content, 0, cursorPosition)
        afterCursor == Slice(content, cursorPosition, Len(content))
    IN IF promptConfig.language = "concerto"
       THEN Rendered("concertoInline", beforeCursor, afterCursor, <<>>)
       ELSE Rendered("inline", beforeCursor, afterCursor, <<>>)

Return(p) ==
    /\ prompt' = p
    /\ pc' = "done"
    /\ eventLog' = Append(eventLog, "render")
    /\ UNCHANGED <<params, error, gatewayLog>>

\* case RequestType.Inline
DispatchInline ==
    /\ UNCHANGED <<contextVars, rankVars, gatewayVars, importsVars, extractVars, assemblyVars>>
    /\ pc = "start" /\ requestTypeOf = "inline"
    /\ Return(inlineRequestPrompt(params.documents, params.promptConfig))

\* case RequestType.Fix: getFixTemplate(content, promptConfig)
DispatchFix ==
    /\ UNCHANGED <<contextVars, rankVars, gatewayVars, importsVars, extractVars, assemblyVars>>
    /\ pc = "start" /\ requestTypeOf = "fix"
    /\ Return(Rendered("fix", params.documents.main.content, <<>>, <<>>))

\* case RequestType.General: getGeneralTemplate(promptConfig)
DispatchGeneral ==
    /\ UNCHANGED <<contextVars, rankVars, gatewayVars, importsVars, extractVars, assemblyVars>>
    /\ pc = "start" /\ requestTypeOf = "general"
    /\ Return(Rendered("general", <<>>, <<>>, <<>>))

\* a semantic request that does not await the Gateway call: the template is
\* rendered with the pending promise
RequestEmbeddingUnawaited(query, provider) ==
    IF query.status = "throw"
    THEN /\ pc' = "failed"
         /\ error' = query.err
         /\ eventLog' = Append(eventLog, "query")
         /\ UNCHANGED <<params, prompt, gatewayLog>>
    ELSE /\ pc' = "done"
         /\ prompt' = Rendered(IF requestTypeOf = "model" THEN "concertoModel" ELSE "grammar",
                               <<>>, <<>>, <<>>)
         /\ gatewayLog' = Append(gatewayLog, [provider |-> provider, text |-> query.value])
         /\ eventLog' = eventLog \o <<"query", "embed", "render">>
         /\ UNCHANGED <<params, error>>

\* the part of a semantic request that runs up to the awaited Gateway call
RequestEmbedding(query, provider) ==
    IF query.status = "throw"
    THEN /\ pc' = "failed"
         /\ error' = query.err
         /\ eventLog' = Append(eventLog, "query")
         /\ UNCHANGED <<params, prompt, gatewayLog>>
    ELSE /\ pc' = "awaitEmbedding"
         /\ gatewayLog' = Append(gatewayLog, [provider |-> provider, text |-> query.value])
         /\ eventLog' = eventLog \o <<"query", "embed">>
         /\ UNCHANGED <<params, prompt, error>>

\* case RequestType.Model: modelRequestPrompt up to its await; the call
\* generateEmbeddingPrompt(documents) passes no request type
DispatchModel ==
    /\ UNCHANGED <<contextVars, rankVars, gatewayVars, importsVars, extractVars, assemblyVars>>
    /\ pc = "start" /\ requestTypeOf = "model"
    /\ RequestEmbedding(generateEmbeddingPrompt(params.documents, NoType),
                        params.config.provider)

\* case RequestType.Grammar: getGrammarTemplate(documents) up to its await
DispatchGrammar ==
    /\ UNCHANGED <<contextVars, rankVars, gatewayVars, importsVars, extractVars, assemblyVars>>
    /\ pc = "start" /\ requestTypeOf = "grammar"
    /\ RequestEmbedding(generateEmbeddingPrompt(params.documents, Some("grammar")),
                        params.config.provider)

\* a default case that falls back to the general template instead of throwing
DispatchDefaultLenient ==
    /\ UNCHANGED <<contextVars, rankVars, gatewayVars, importsVars, extractVars, assemblyVars>>
    /\ pc = "start"
    /\ requestTypeOf \notin {"inline", "fix", "general", "model", "grammar"}
    /\ Return(Rendered("general", <<>>, <<>>, <<>>))

\* default: throw new Error('Unsupported request type')
DispatchDefault ==
    /\ UNCHANGED <<contextVars, rankVars, gatewayVars, importsVars, extractVars, assemblyVars>>
    /\ pc = "start"
    /\ requestTypeOf \notin {"inline", "fix", "general", "model", "grammar"}
    /\ pc' = "failed"
    /\ error' = "UnsupportedRequestType"
    /\ UNCHANGED <<params, prompt, gatewayLog, eventLog>>

\* the awaited generateEmbeddingsByProvider resolves: the template is rendered
EmbeddingResolved ==
    /\ UNCHANGED <<contextVars, rankVars, gatewayVars, importsVars, extractVars, assemblyVars>>
    /\ pc = "awaitEmbedding"
    /\ \E e \in Embeddings :
        /\ prompt' = Rendered(IF requestTypeOf = "model" THEN "concertoModel" ELSE "grammar",
                              <<>>, <<>>, e)
        /\ pc' = "done"
        /\ eventLog' = eventLog \o <<"embedded", "render">>
    /\ UNCHANGED <<params, error, gatewayLog>>

\* the awaited generateEmbeddingsByProvider rejects: the error propagates
EmbeddingRejected ==
    /\ UNCHANGED <<contextVars, rankVars, gatewayVars, importsVars, extractVars, assemblyVars>>
    /\ pc = "awaitEmbedding"
    /\ pc' = "failed"
    /\ error' = "EmbeddingError"
    /\ UNCHANGED <<params, prompt, gatewayLog, eventLog>>

(***************************************************************************)
(* Similarity engine: the templates as fetchRelevantTemplates renders them *)
(***************************************************************************)
MaxTemplates == 2     \* most templates in the stored corpus
MaxParts == 3         \* most fragments a template content is made of

ImportWord == <<"i", "m", "p", "o", "r", "t", " ">>

\* `.` of a regular expression without the s flag matches no line terminator
LineTerminators == {"\n", "\r"}

\* the first position from j on that holds a line terminator, or Len(text) + 1
RECURSIVE DotStarEnd(_, _)
DotStarEnd(text, j) ==
    IF j > Len(text) \/ text[j] \in LineTerminators THEN j ELSE DotStarEnd(text, j + 1)

\* /import .*\n/ tried at position i: the index of the newline that ends the
\* match, or 0 when the expression does not match there
ImportMatchEnd(text, i) ==
    IF ~StartsWith(text, i, ImportWord) THEN 0
    ELSE LET j == DotStarEnd(text, i + Len(ImportWord))
         IN IF j <= Len(text) /\ text[j] = "\n" THEN j ELSE 0

\* replace(/import .*\n/g, ''): every match, left to right, is dropped
RECURSIVE ReplaceImports(_, _)
ReplaceImports(text, i) ==
    IF i > Len(text) THEN <<>>
    ELSE LET e == ImportMatchEnd(text, i)
         IN IF e > 0 THEN ReplaceImports(text, e + 1)
            ELSE <<text[i]>> \o ReplaceImports(text, i + 1)

cleanedModelContent(content) == ReplaceImports(content, 1)

\* fetchRelevantTemplates with the three strings of each returned item
relevantTemplates(in) ==
    LET ranked == fetchRelevantTemplates(in)
    IN [status |-> ranked.status,
        items |-> [j \in 1..Len(ranked.items) |->
                      LET template == in.corpus[ranked.items[j].key]
                      IN [templateName |-> ranked.items[j].key,
                          grammarContent |-> template.content,
                          modelContent |-> cleanedModelContent(template.content)]]]

ContentParts == {ImportWord \o <<"a">>, <<"\n">>, <<"b">>}
TemplateContents == {Flatten(q) : q \in SeqsUpTo(ContentParts, MaxParts)}
Templates == {[openai |-> Some(<<1, 0>>), gemini |-> None, content |-> c] : c \in TemplateContents}
TemplateCorpora == SeqsUpTo(Templates, MaxTemplates)

TemplatesInput(c) ==
    [corpus |-> c, promptEmbedding |-> <<1, 0>>, provider |-> "openai",
     topN |-> [some |-> FALSE, val |-> 0]]
NotRendered == [status |-> "pending", items |-> <<>>]

IdleTemplates ==
    /\ tplIn = TemplatesInput(<<>>)
    /\ tplOut = NotRendered

RenderTemplates ==
    /\ tplOut.status = "pending"
    /\ tplOut' = relevantTemplates(tplIn)
    /\ UNCHANGED <<tplIn, plannerVars, contextVars, rankVars, gatewayVars, importsVars,
                   extractVars, mappingsVars, callsVars>>

(***************************************************************************)
(* Namespace mapper: getNamespaceMappings                                  *)
(*                                                                         *)
(* namespaceMappings is an object: a sequence of [key, values] in the      *)
(* order the keys were created.  Its entries are enumerated as ECMAScript  *)
(* orders own property keys: array indices in ascending numeric order,     *)
(* then the other keys in creation order.                                  *)
(***************************************************************************)
MaxModels == 2        \* most entries in the model corpus
MaxDecls == 2         \* most fragments a model file of the corpus is made of

DigitChars == <<"0", "1", "2", "3", "4", "5", "6", "7", "8", "9">>
IsDigit(c) == \E d \in 1..10 : DigitChars[d] = c
DigitValue(c) == (CHOOSE d \in 1..10 : DigitChars[d] = c) - 1

RECURSIVE NumericValue(_)
NumericValue(key) ==
    IF key = <<>> THEN 0
    ELSE 10 * NumericValue(SubSeq(key, 1, Len(key) - 1)) + DigitValue(key[Len(key)])

\* a canonical numeric string; with at most 9 digits its value is below 2^32 - 1
IsArrayIndex(key) ==
    /\ key # <<>>
    /\ Len(key) <= 9
    /\ \A i \in 1..Len(key) : IsDigit(key[i])
    /\ Len(key) = 1 \/ key[1] # "0"

\* obj[key] = values with every property created at the end
AssignPropertyAppend(obj, key, values) == Append(obj, Mapping(key, values))

\* obj[key] = values: an existing property keeps its place and takes the value
AssignProperty(obj, key, values) ==
    IF \E i \in 1..Len(obj) : obj[i].key = key
    THEN [i \in 1..Len(obj) |-> IF obj[i].key = key THEN Mapping(key, values) ELSE obj[i]]
    ELSE Append(obj, Mapping(key, values))

RECURSIVE InsertByIndex(_, _)
InsertByIndex(sorted, e) ==
    IF sorted = <<>> THEN <<e>>
    ELSE IF NumericValue(e.key) < NumericValue(sorted[1].key)
         THEN <<e>> \o sorted
         ELSE <<sorted[1]>> \o InsertByIndex(Tail(sorted), e)

RECURSIVE IndexEntries(_)
IndexEntries(obj) ==
    IF obj = <<>> THEN <<>>
    ELSE IF IsArrayIndex(obj[Len(obj)].key)
         THEN InsertByIndex(IndexEntries(SubSeq(obj, 1, Len(obj) - 1)), obj[Len(obj)])
         ELSE IndexEntries(SubSeq(obj, 1, Len(obj) - 1))

IsNamedEntry(e) == ~IsArrayIndex(e.key)

\* Object.entries(obj)
ObjectEntries(obj) == IndexEntries(obj) \o SelectSeq(obj, IsNamedEntry)

\* Object.keys(modelEmbeddings).forEach over the first n keys
RECURSIVE forEachKey(_, _)
forEachKey(embeddings, n) ==
    IF n = 0 THEN <<>>
    ELSE AssignProperty(forEachKey(embeddings, n - 1), embeddings[n].fileName,
                        extractNamespaces(embeddings[n].fileContent))

getNamespaceMappings(embeddings) ==
    generateCTOImports(ObjectEntries(forEachKey(embeddings, Len(embeddings))))

Declarations ==
    {<<"a", "s", "s", "e", "t", " ", "V", " ">>, <<"e", "n", "u", "m", " ", "D", " ">>}
ModelTexts == {Flatten(q) : q \in SeqsUpTo(Declarations, MaxDecls)}
ModelFileNames == {<<"a", ".", "c", "t", "o">>, <<"b", ".", "c", "t", "o">>, <<"7">>, <<"3">>}
ModelFiles == [fileName : ModelFileNames, fileContent : ModelTexts]
ModelCorpora == SeqsUpTo(ModelFiles, MaxModels)

IdleMappings ==
    /\ modelEmbeddings = <<>>
    /\ mappingsOut = NoImports

MapNamespaces ==
    /\ ~mappingsOut.done
    /\ mappingsOut' = [done |-> TRUE, text |-> getNamespaceMappings(modelEmbeddings)]
    /\ UNCHANGED <<modelEmbeddings, plannerVars, contextVars, rankVars, gatewayVars,
                   importsVars, extractVars, templatesVars, callsVars>>

(***************************************************************************)
(* Several agentPlanner calls in flight over one stored corpus             *)
(*                                                                         *)
(* A call runs without interruption up to its awaited Gateway call and     *)
(* from the answer to its end; other calls run in between.  The semantic   *)
(* templates rank the stored corpus with the returned embedding.           *)
(***************************************************************************)
NumCalls == 2         \* calls in flight
MaxStored == 2        \* most entries in the stored corpus the calls share

NoAnswer == [some |-> FALSE, val |-> <<>>]
PromptOf(rendered, relevant) == [rendered |-> rendered, relevant |-> relevant]
Call(p, at, answer, pr, err) ==
    [params |-> p, pc |-> at, answer |-> answer, prompt |-> pr, error |-> err]
NotCalled(p) == Call(p, "start", NoAnswer, PromptOf(NoPrompt, <<>>), "none")

\* agentPlanner from its entry to its first await, or to its end
startCall(p) ==
    LET requestType == p.promptConfig.requestType
        returned(r) == Call(p, "done", NoAnswer, PromptOf(r, <<>>), "none")
        thrown(e) == Call(p, "failed", NoAnswer, PromptOf(NoPrompt, <<>>), e)
        awaited(query) ==
            IF query.status = "throw" THEN thrown(query.err)
            ELSE Call(p, "awaitEmbedding", NoAnswer, PromptOf(NoPrompt, <<>>), "none")
    IN IF requestType = "inline"
       THEN returned(inlineRequestPrompt(p.documents, p.promptConfig))
       ELSE IF requestType = "fix"
       THEN returned(Rendered("fix", p.documents.main.content, <<>>, <<>>))
       ELSE IF requestType = "general"
       THEN returned(Rendered("general", <<>>, <<>>, <<>>))
       ELSE IF requestType = "model"
       THEN awaited(generateEmbeddingPrompt(p.documents, NoType))
       ELSE IF requestType = "grammar"
       THEN awaited(generateEmbeddingPrompt(p.documents, Some("grammar")))
       ELSE thrown("UnsupportedRequestType")

RankingInput(p, stored, promptEmbedding) ==
    [corpus |-> stored, promptEmbedding |-> promptEmbedding, provider |-> p.config.provider,
     topN |-> [some |-> FALSE, val |-> 0]]

\* the template of a semantic request, rendered once the Gateway has
\* answered: it ranks the stored corpus with the returned embedding
resumeCall(p, stored, promptEmbedding) ==
    LET in == RankingInput(p, stored, promptEmbedding)
        isModel == p.promptConfig.requestType = "model"
        first == IF isModel THEN fetchRelevantNamespaces(in) ELSE fetchRelevantGrammar(in)
        second == IF isModel THEN fetchRelevantTemplates(in) ELSE first
    IN IF first.status = "throw" \/ second.status = "throw"
       THEN Call(p, "failed", Some(promptEmbedding), PromptOf(NoPrompt, <<>>), "RangeError")
       ELSE Call(p, "done", Some(promptEmbedding),
                 PromptOf(Rendered(IF isModel THEN "concertoModel" ELSE "grammar",
                                   <<>>, <<>>, promptEmbedding),
                          IF isModel THEN first.items \o second.items ELSE first.items),
                 "none")

\* a ranking operation that sorts and cuts the corpus it was given
StoredRankedInPlace(in) ==
    LET ranked == fetchRelevantNamespaces(in)
    IN IF ranked.status = "throw" THEN in.corpus
       ELSE [j \in 1..Len(ranked.items) |-> in.corpus[ranked.items[j].key]]

\* the stored corpus after a ranking operation: the loop reads its entries,
\* sort and slice work on the local array of similarities
StoredAfterRanking(in) == in.corpus

StoredEntries ==
    {Entry(Some(<<1, 0>>), Some(<<0, 1>>)), Entry(Some(<<2, 0>>), None),
     Entry(Some(<<0, 1>>), Some(<<>>))}
StoredCorpora == SeqsUpTo(StoredEntries, MaxStored)

SampleDocuments == Some(<<[fileName |-> "sample.md", content |-> Some(<<"g">>)]>>)
ModelDocuments ==
    Some(<<[fileName |-> "grammar.tem.md", content |-> Some(<<"g">>)],
           [fileName |-> "package.json", content |-> Some(<<"p", "q">>)]>>)
CallParams ==
    {MkParams("inline", <<"a", "b">>, [some |-> TRUE, val |-> 1], "concerto", NoDocuments, "openai"),
     MkParams("model", <<"a">>, NoCursor, "concerto", ModelDocuments, "openai"),
     MkParams("model", <<"a">>, NoCursor, "concerto", NoDocuments, "openai"),
     MkParams("grammar", <<"a">>, NoCursor, "concerto", SampleDocuments, "gemini")}

IdleCalls ==
    /\ storedCorpus = <<>>
    /\ corpusAtStart = <<>>
    /\ calls = <<>>

IdleAssembly ==
    /\ IdleTemplates
    /\ IdleMappings
    /\ IdleCalls

StartCall ==
    /\ \E i \in 1..NumCalls :
        /\ calls[i].pc = "start"
        /\ calls' = [calls EXCEPT ![i] = startCall(calls[i].params)]
    /\ UNCHANGED <<storedCorpus, corpusAtStart, plannerVars, contextVars, rankVars, gatewayVars,
                   importsVars, extractVars, templatesVars, mappingsVars>>

AnswerCall ==
    /\ \E i \in 1..NumCalls, e \in Embeddings :
        /\ calls[i].pc = "awaitEmbedding"
        /\ calls' = [calls EXCEPT ![i] = resumeCall(calls[i].params, storedCorpus, e)]
        /\ storedCorpus' = StoredAfterRanking(RankingInput(calls[i].params, storedCorpus, e))
    /\ UNCHANGED <<corpusAtStart, plannerVars, contextVars, rankVars, gatewayVars,
                   importsVars, extractVars, templatesVars, mappingsVars>>

RejectCall ==
    /\ \E i \in 1..NumCalls :
        /\ calls[i].pc = "awaitEmbedding"
        /\ calls' = [calls EXCEPT ![i] =
                        Call(calls[i].params, "failed", NoAnswer, PromptOf(NoPrompt, <<>>),
                             "EmbeddingError")]
    /\ UNCHANGED <<storedCorpus, corpusAtStart, plannerVars, contextVars, rankVars, gatewayVars,
                   importsVars, extractVars, templatesVars, mappingsVars>>

InitPlanner ==
    /\ params \in PlannerParams
    /\ pc = "start"
    /\ prompt = NoPrompt
    /\ error = "none"
    /\ gatewayLog = <<>>
    /\ eventLog = <<>>
    /\ IdleContext
    /\ IdleRank
    /\ IdleGateway
    /\ IdleImports
    /\ IdleExtract
    /\ IdleAssembly

agentPlanner ==
    \/ DispatchInline
    \/ DispatchFix
    \/ DispatchGeneral
    \/ DispatchModel
    \/ DispatchGrammar
    \/ DispatchDefault
    \/ EmbeddingResolved
    \/ EmbeddingRejected

SpecPlanner == InitPlanner /\ [][agentPlanner]_vars

InitContext ==
    /\ ctxIn \in [documents : [contextDocuments : ContextDocuments],
                  requestType : {NoType, Some("grammar"), Some("model"), Some("inline")}]
    /\ ctxOut = Pending
    /\ IdlePlanner
    /\ IdleRank
    /\ IdleGateway
    /\ IdleImports
    /\ IdleExtract
    /\ IdleAssembly

NextContext == BuildQuery

SpecContext == InitContext /\ [][NextContext]_vars

InitRank ==
    /\ rankIn \in [corpus : Corpora, promptEmbedding : QueryEmbeddings,
                   provider : RankProviders, topN : TopNs]
    /\ rankOut = NotRanked
    /\ IdlePlanner
    /\ IdleContext
    /\ IdleGateway
    /\ IdleImports
    /\ IdleExtract
    /\ IdleAssembly

NextRank ==
    \/ RankNamespaces
    \/ RankTemplates
    \/ RankGrammar

SpecRank == InitRank /\ [][NextRank]_vars

InitGateway ==
    /\ gwConfig \in GatewayConfigs
    /\ gwPc = "start"
    /\ gwRequest = NoRequest
    /\ gwResponse = NoSettlement
    /\ gwOut = GwPending
    /\ IdlePlanner
    /\ IdleContext
    /\ IdleRank
    /\ IdleImports
    /\ IdleExtract
    /\ IdleAssembly

NextGateway ==
    \/ SendContent
    \/ SendEmbeddings
    \/ ContentResolved
    \/ ContentRejected
    \/ EmbeddingsResolved
    \/ EmbeddingsRejected

SpecGateway == InitGateway /\ [][NextGateway]_vars

InitImports ==
    /\ importsIn \in NamespaceMappings
    /\ importsOut = NoImports
    /\ IdlePlanner
    /\ IdleContext
    /\ IdleRank
    /\ IdleGateway
    /\ IdleExtract
    /\ IdleAssembly

NextImports == SynthesizeImports

SpecImports == InitImports /\ [][NextImports]_vars

InitExtract ==
    /\ fileContent \in FileContents
    /\ namespaces = NotExtracted
    /\ IdlePlanner
    /\ IdleContext
    /\ IdleRank
    /\ IdleGateway
    /\ IdleImports
    /\ IdleAssembly

NextExtract == ExtractNames

SpecExtract == InitExtract /\ [][NextExtract]_vars

InitTemplates ==
    /\ tplIn \in {TemplatesInput(c) : c \in TemplateCorpora}
    /\ tplOut = NotRendered
    /\ IdlePlanner
    /\ IdleContext
    /\ IdleRank
    /\ IdleGateway
    /\ IdleImports
    /\ IdleExtract
    /\ IdleMappings
    /\ IdleCalls

NextTemplates == RenderTemplates

SpecTemplates == InitTemplates /\ [][NextTemplates]_vars

InitMappings ==
    /\ modelEmbeddings \in ModelCorpora
    /\ mappingsOut = NoImports
    /\ IdlePlanner
    /\ IdleContext
    /\ IdleRank
    /\ IdleGateway
    /\ IdleImports
    /\ IdleExtract
    /\ IdleTemplates
    /\ IdleCalls

NextMappings == MapNamespaces

SpecMappings == InitMappings /\ [][NextMappings]_vars

InitCalls ==
    /\ storedCorpus \in StoredCorpora
    /\ corpusAtStart = storedCorpus
    /\ calls \in {[i \in 1..NumCalls |-> NotCalled(ps[i])] : ps \in [1..NumCalls -> CallParams]}
    /\ IdlePlanner
    /\ IdleContext
    /\ IdleRank
    /\ IdleGateway
    /\ IdleImports
    /\ IdleExtract
    /\ IdleTemplates
    /\ IdleMappings

NextCalls ==
    \/ StartCall
    \/ AnswerCall
    \/ RejectCall

SpecCalls == InitCalls /\ [][NextCalls]_vars

(***************************************************************************)
(* Properties of the template assembler and the context extractor          *)
(***************************************************************************)
Lacks(documents, name) ==
    \/ ~documents.contextDocuments.some
    \/ ~FindDoc(documents.contextDocuments.val, name, 1).some

Settled == pc \in {"awaitEmbedding", "done", "failed"}

\* C1: a Model request whose context documents lack "grammar.tem.md" or
\* "package.json" fails with MissingDocument, and no Gateway call has been
\* made when it fails.
C1_MissingDocumentBeforeNetwork ==
    (/\ requestTypeOf = "model"
     /\ Lacks(params.documents, "grammar.tem.md") \/ Lacks(params.documents, "package.json")
     /\ Settled)
    => (pc = "failed" /\ error = "MissingDocument" /\ gatewayLog = <<>>)

\* C2: an Inline request with cursorPosition p, 0 <= p <= length(c), passes the
\* first p characters of c as the before text and the rest as the after text;
\* with cursorPosition unset it passes c and the empty string.
C2_InlineSplit ==
    (pc = "done" /\ requestTypeOf = "inline")
    => LET c == params.documents.main.content
           p == params.documents.main.cursorPosition
       IN IF p.some
          THEN p.val <= Len(c)
               => /\ prompt.before = SubSeq(c, 1, p.val)
                  /\ prompt.after = SubSeq(c, p.val + 1, Len(c))
          ELSE prompt.before = c /\ prompt.after = <<>>

\* C5: a request whose type is not Inline, Fix, General, Model or Grammar fails
\* with UnsupportedRequestType; no template renderer and no Gateway operation
\* is invoked.
C5_UnsupportedRequestType ==
    (pc # "idle" /\ requestTypeOf \notin {"inline", "fix", "general", "model", "grammar"})
    => /\ prompt = NoPrompt
       /\ gatewayLog = <<>>
       /\ eventLog = <<>>
       /\ pc \in {"start", "failed"}
       /\ pc = "failed" => error = "UnsupportedRequestType"

C5_Witness ==
    /\ requestTypeOf = "frobnicate"
    /\ pc = "failed"
    /\ error = "UnsupportedRequestType"

\* C10: for a grammar request the embedding query is exactly the content of
\* the context document named "sample.md"; when the document is missing or its
\* content is undefined the query is the empty string and nothing is thrown.
C10_GrammarQuery ==
    (ctxOut.status # "pending" /\ IsType(ctxIn.requestType, "grammar"))
    => LET sample == FindContent(ctxIn.documents.contextDocuments, "sample.md")
       IN /\ ctxOut.status = "ok"
          /\ ctxOut.value = (IF sample.some THEN sample.val ELSE <<>>)

(***************************************************************************)
(* Properties of the similarity engine                                     *)
(***************************************************************************)
Range(q) == {q[j] : j \in DOMAIN q}
ReturnedKeys == {rankOut.items[j].key : j \in DOMAIN rankOut.items}
EffectiveTopN ==
    IF rankIn.topN.some THEN rankIn.topN.val
    ELSE IF rankOut.op = "grammar" THEN DefaultTopGrammar ELSE DefaultTopNamespaces

\* the similarity of corpus entry k to the query, for the requested provider
SimilarityOf(k) ==
    cosineSimilarity(rankIn.promptEmbedding,
                     (IF rankIn.provider = "gemini" THEN rankIn.corpus[k].gemini
                      ELSE rankIn.corpus[k].openai).val)
AtLeast(a, b) == a.num * b.den >= b.num * a.den

SameSimilarity(j, k) ==
    /\ AtLeast(SimilarityOf(j), SimilarityOf(k))
    /\ AtLeast(SimilarityOf(k), SimilarityOf(j))

HasEmbedding(entry, provider) ==
    /\ provider \in {"openai", "gemini"}
    /\ LET stored == IF provider = "gemini" THEN entry.gemini ELSE entry.openai
       IN stored.some /\ stored.val # <<>>

\* C4: an entry is scored, and appears in the ranked output, only if it
\* carries a non-empty embedding array for the requested provider; every
\* other entry is skipped.
C4_OnlyNonEmptyEmbeddingsScored ==
    rankOut.status # "pending"
    => \A k \in Range(rankOut.scored) \cup ReturnedKeys :
          HasEmbedding(rankIn.corpus[k], rankIn.provider)

(***************************************************************************)
(* Properties of the gateway                                               *)
(***************************************************************************)
ContentSettled == gwPc = "settled" /\ gwRequest.operation = "content"
EmbeddingsSettled == gwPc = "settled" /\ gwRequest.operation = "embeddings"
Answered == gwResponse.kind \in {"resolved", "rejectedWithResponse"}

\* C6: generateContent returns a result only when the provider answered 200
\* with at least one choice; an answer with a non-success (non-2xx) status s
\* makes it fail with an error that carries s; an answer 200 without choices
\* makes it fail, it returns no empty string.
C6_GenerationErrors ==
    ContentSettled
    => /\ gwOut.status = "ok"
          => /\ gwResponse.kind = "resolved"
             /\ gwResponse.status = 200
             /\ gwResponse.body.hasList
             /\ Len(gwResponse.body.choices) >= 1
       /\ (Answered /\ gwResponse.status \notin 200..299)
          => (gwOut.status = "throw" /\ gwOut.cause = "status"
              /\ gwOut.carried = gwResponse.status)
       /\ (/\ gwResponse.kind = "resolved"
           /\ gwResponse.status = 200
           /\ gwResponse.body.hasBody
           /\ ~gwResponse.body.hasList \/ gwResponse.body.choices = <<>>)
          => gwOut.status = "throw"

C6_Witness ==
    /\ ContentSettled
    /\ gwResponse.kind = "rejectedWithResponse"
    /\ gwResponse.status = 500
    /\ gwOut.status = "throw"
    /\ gwOut.carried = 500

\* C7: an answer 200 that lacks an expected field (generateContent: a first
\* choice without message or without message content; generateEmbeddings: an
\* empty result array or a first result without embedding) makes the call
\* fail; it does not complete with an undefined or empty result.
C7_MalformedResponseFails ==
    (/\ gwPc = "settled"
     /\ gwResponse.kind = "resolved"
     /\ gwResponse.status = 200
     /\ gwResponse.body.hasBody
     /\ gwResponse.body.hasList
     /\ \/ /\ gwRequest.operation = "content"
           /\ gwResponse.body.choices # <<>>
           /\ ~(gwResponse.body.choices[1].hasMessage /\ gwResponse.body.choices[1].hasContent)
        \/ /\ gwRequest.operation = "embeddings"
           /\ \/ gwResponse.body.results = <<>>
              \/ ~gwResponse.body.results[1].hasEmbedding)
    => gwOut.status = "throw"

(***************************************************************************)
(* Properties of the namespace mapper                                      *)
(***************************************************************************)
\* a file name without its extension: the text before its last dot
StripExtension(f) ==
    LET dots == {i \in 2..Len(f) : f[i] = "."}
    IN IF dots = {} THEN f
       ELSE SubSeq(f, 1, (CHOOSE i \in dots : \A d \in dots : d <= i) - 1)

RECURSIVE CommaSeparated(_)
CommaSeparated(names) ==
    IF Len(names) = 1 THEN names[1]
    ELSE names[1] \o <<",", " ">> \o CommaSeparated(Tail(names))

ClaimedLine(f, names) ==
    IF names = <<>> THEN <<>>
    ELSE ImportPrefix \o StripExtension(f) \o <<".">>
         \o (IF Len(names) = 1 THEN names[1]
             ELSE <<"{", " ">> \o CommaSeparated(names) \o <<" ", "}">>)
         \o FromRegistry \o f \o Newline

RECURSIVE ClaimedLines(_)
ClaimedLines(entries) ==
    IF entries = <<>> THEN <<>>
    ELSE ClaimedLine(entries[1].key, entries[1].values) \o ClaimedLines(Tail(entries))

\* C8: for a file f with extracted names s the line emitted is
\* `import org.accordproject.<basename>.<Name> from <registry>/<f>` and a
\* newline when s has one name, the `{ <Name1>, <Name2> }` form in extraction
\* order when it has more, and nothing when it has none; <basename> is f
\* with its extension stripped.
C8_ImportLines ==
    importsOut.done => importsOut.text = ClaimedLines(importsIn)

\* ---- name extraction, stated on the words of the text ----
IsWordStart(text, i) == IsWordAt(text, i) /\ ~IsWordAt(text, i - 1)
WordEnd(text, i) ==
    CHOOSE e \in i..Len(text) :
        /\ \A j \in i..e : IsWordAt(text, j)
        /\ ~IsWordAt(text, e + 1)
WordFrom(text, i) == SubSeq(text, i, WordEnd(text, i))

\* the start of the word that follows the word at i after white space only,
\* 0 if there is none
FollowingWord(text, i) ==
    LET e == WordEnd(text, i)
        after == {k \in (e + 2)..Len(text) :
                    /\ IsWordAt(text, k)
                    /\ \A j \in (e + 1)..(k - 1) : IsSpaceAt(text, j)}
    IN IF after = {} THEN 0 ELSE CHOOSE k \in after : \A m \in after : k <= m

\* "abstract asset" ends with the word asset, so its occurrences are among these
DeclaringWords == {Keywords[1], Keywords[2], Keywords[3]}
IsDeclaration(text, i) ==
    /\ IsWordStart(text, i)
    /\ WordFrom(text, i) \in DeclaringWords
    /\ FollowingWord(text, i) # 0

\* the first keyword occurrence at or after position i, 0 if there is none
RECURSIVE NextDeclaration(_, _)
NextDeclaration(text, i) ==
    IF i > Len(text) THEN 0
    ELSE IF IsDeclaration(text, i) THEN i ELSE NextDeclaration(text, i + 1)

\* the identifier after every keyword occurrence, in order of appearance
RECURSIVE EveryOccurrence(_, _)
EveryOccurrence(text, from) ==
    LET d == NextDeclaration(text, from)
    IN IF d = 0 THEN <<>>
       ELSE <<WordFrom(text, FollowingWord(text, d))>> \o EveryOccurrence(text, d + 1)

\* the same, but a word taken as an identifier is not looked at again
RECURSIVE UnconsumedOccurrences(_, _)
UnconsumedOccurrences(text, from) ==
    LET d == NextDeclaration(text, from)
    IN IF d = 0 THEN <<>>
       ELSE LET name == FollowingWord(text, d)
            IN <<WordFrom(text, name)>>
               \o UnconsumedOccurrences(text, WordEnd(text, name) + 1)

\* C9: extractNamespaces returns exactly the identifiers that follow each
\* occurrence of asset, participant, enum or abstract asset, in order of
\* appearance, keeping every match.
C9_EveryKeywordOccurrence ==
    namespaces.done => namespaces.names = EveryOccurrence(fileContent, 1)

\* C9 (amended): extractNamespaces returns, in order of appearance and keeping
\* duplicates, the identifier that follows each keyword occurrence met in a
\* left-to-right scan in which a word already returned as an identifier is
\* not taken as a keyword.
C9_UnconsumedKeywordOccurrences ==
    namespaces.done => namespaces.names = UnconsumedOccurrences(fileContent, 1)

\* two declarations of the same name in one text: the name is returned twice
C9_Witness ==
    /\ namespaces.done
    /\ Len(namespaces.names) = 2
    /\ namespaces.names[1] = namespaces.names[2]
    /\ Len(EveryOccurrence(fileContent, 1)) = 2

(***************************************************************************)
(* Order of events in one agentPlanner call                                *)
(***************************************************************************)
ModelEvents == <<"query", "embed", "embedded", "render">>
IsPrefix(s, t) == Len(s) <= Len(t) /\ SubSeq(t, 1, Len(s)) = s

\* C13: in every agentPlanner call the embedding Gateway is called at most
\* once and only for a model or grammar request; a model request builds the
\* query, then requests the embedding and awaits it, then renders the model
\* template with the returned embedding; an inline, fix or general request
\* returns its prompt without any Gateway call.
C13_GatewayOnceInOrder ==
    /\ Len(gatewayLog) <= 1
    /\ gatewayLog # <<>> => requestTypeOf \in {"model", "grammar"}
    /\ requestTypeOf = "model"
       => /\ IsPrefix(eventLog, ModelEvents)
          /\ pc = "awaitEmbedding" => eventLog = <<"query", "embed">> /\ Len(gatewayLog) = 1
          /\ pc = "done"
             => /\ eventLog = ModelEvents
                /\ Len(gatewayLog) = 1
                /\ prompt.template = "concertoModel"
                /\ prompt.embedding \in Embeddings
    /\ requestTypeOf \in {"inline", "fix", "general"}
       => /\ gatewayLog = <<>>
          /\ pc = "done" => eventLog = <<"render">>

\* a model request that has returned its prompt after its one Gateway call
C13_Witness ==
    /\ requestTypeOf = "model"
    /\ pc = "done"
    /\ eventLog = ModelEvents
    /\ Len(gatewayLog) = 1
    /\ prompt.embedding \in Embeddings

(***************************************************************************)
(* Calls in flight                                                         *)
(***************************************************************************)
\* the call with params p run on its own over the stored corpus, the Gateway
\* giving the same answer (an embedding, or a rejection when it gave none)
Alone(p, answer, stored) ==
    LET synchronous == startCall(p)
    IN IF synchronous.pc # "awaitEmbedding" THEN synchronous
       ELSE IF answer.some THEN resumeCall(p, stored, answer.val)
       ELSE Call(p, "failed", NoAnswer, PromptOf(NoPrompt, <<>>), "EmbeddingError")

Finished(call) == call.pc \in {"done", "failed"}

RECURSIVE LineStop(_, _)
LineStop(text, j) ==
    IF j > Len(text) \/ text[j] = "\n" THEN j ELSE LineStop(text, j + 1)

\* the text line by line from the line that starts at i, without the lines
\* that start with `import `
RECURSIVE WithoutImportLines(_, _)
WithoutImportLines(text, i) ==
    IF i > Len(text) THEN <<>>
    ELSE LET stop == Min(LineStop(text, i), Len(text))
         IN (IF StartsWith(text, i, ImportWord) THEN <<>> ELSE SubSeq(text, i, stop))
            \o WithoutImportLines(text, stop + 1)

\* C11: the model content shown for each selected template is the template's
\* content with every import line removed, a last import line without a
\* trailing newline included, and every other line left unchanged.
C11_ImportLinesRemoved ==
    tplOut.status = "ok"
    => \A j \in DOMAIN tplOut.items :
          tplOut.items[j].modelContent
              = WithoutImportLines(tplOut.items[j].grammarContent, 1)

(***************************************************************************)
(* Properties of getNamespaceMappings                                      *)
(***************************************************************************)
\* the import line of corpus entry i, empty when no name is extracted
EntryLine(i) ==
    ImportLine(modelEmbeddings[i].fileName,
               extractNamespaces(modelEmbeddings[i].fileContent))

RECURSIVE LinesPerEntry(_)
LinesPerEntry(i) ==
    IF i > Len(modelEmbeddings) THEN <<>> ELSE EntryLine(i) \o LinesPerEntry(i + 1)

\* C12: getNamespaceMappings emits exactly one newline-terminated import
\* line for each corpus entry from which at least one name was extracted, in
\* the iteration order of the corpus, also when two entries share a fileName.
C12_OneLinePerEntry ==
    mappingsOut.done => mappingsOut.text = LinesPerEntry(1)

IsFirstWithName(i) ==
    \A j \in 1..(i - 1) : modelEmbeddings[j].fileName # modelEmbeddings[i].fileName
IsLastWithName(i) ==
    \A j \in (i + 1)..Len(modelEmbeddings) :
        modelEmbeddings[j].fileName # modelEmbeddings[i].fileName
LastWithName(name) ==
    CHOOSE i \in 1..Len(modelEmbeddings) :
        modelEmbeddings[i].fileName = name /\ IsLastWithName(i)

\* the file names that are array indices, in ascending numeric order
RECURSIVE AscendingIndices(_)
AscendingIndices(names) ==
    IF names = {} THEN <<>>
    ELSE LET least == CHOOSE n \in names :
                          \A o \in names : NumericValue(n) <= NumericValue(o)
         IN <<least>> \o AscendingIndices(names \ {least})

\* the other file names, in the order of their first entry
RECURSIVE NamesInOrder(_)
NamesInOrder(i) ==
    IF i > Len(modelEmbeddings) THEN <<>>
    ELSE (IF IsFirstWithName(i) /\ ~IsArrayIndex(modelEmbeddings[i].fileName)
          THEN <<modelEmbeddings[i].fileName>> ELSE <<>>)
         \o NamesInOrder(i + 1)

FileNameOrder ==
    AscendingIndices({modelEmbeddings[i].fileName : i \in 1..Len(modelEmbeddings)}
                     \cap {n \in ModelFileNames : IsArrayIndex(n)})
    \o NamesInOrder(1)

RECURSIVE LinesPerFileName(_)
LinesPerFileName(names) ==
    IF names = <<>> THEN <<>>
    ELSE EntryLine(LastWithName(names[1])) \o LinesPerFileName(Tail(names))

DistinctPlainNames ==
    \A i \in 1..Len(modelEmbeddings) :
        IsFirstWithName(i) /\ ~IsArrayIndex(modelEmbeddings[i].fileName)

\* C12 (amended): getNamespaceMappings emits one newline-terminated import
\* line for each distinct fileName whose last entry yields at least one name,
\* built from that last entry; file names that are array indices come first
\* in ascending numeric order, the others follow in the order of their first
\* entry.  When the file names are pairwise distinct and none is an array
\* index, that is one line per entry with a name, in corpus order.
C12_OneLinePerFileName ==
    mappingsOut.done
    => /\ mappingsOut.text = LinesPerFileName(FileNameOrder)
       /\ DistinctPlainNames => mappingsOut.text = LinesPerEntry(1)

\* two entries share a file name and declare different names: one line, built
\* from the second entry
C12_Witness ==
    /\ mappingsOut.done
    /\ Len(modelEmbeddings) = 2
    /\ modelEmbeddings[1].fileName = modelEmbeddings[2].fileName
    /\ extractNamespaces(modelEmbeddings[1].fileContent) # <<>>
    /\ extractNamespaces(modelEmbeddings[2].fileContent) # <<>>
    /\ EntryLine(1) # EntryLine(2)
    /\ mappingsOut.text = EntryLine(2)

====
